---- MODULE Spec2Model ----
(***************************************************************************)
(* Ledger balance engine of orion-ledger: chart of accounts, journal       *)
(* entries and lines, balance snapshots, accounting closings, and the      *)
(* trial balance / balance sheet aggregation.                              *)
(*                                                                         *)
(* Money is an integer number of currency units (the code uses             *)
(* Decimal(15,2); no operation below divides or rounds).  A DateTimeField  *)
(* is an integer tick, a DateField is an integer day and                   *)
(* datetime.date() is integer division by TicksPerDay.                     *)
(*                                                                         *)
(* The database runs in Django's autocommit mode (no transaction.atomic,   *)
(* no ATOMIC_REQUESTS anywhere in the repository), so every objects.create *)
(* is durable as soon as it returns, whatever the handler raises later.    *)
(* Keyword arguments that the model classes under src/ do not declare      *)
(* (created_by, created_by_ai, code) are taken as accepted, as the         *)
(* repository's own tests do.                                              *)
(*                                                                         *)
(* The CHECK constraints balance_timestamp_not_future and                  *)
(* closing_date_not_future compare against timezone.now() evaluated when   *)
(* the constraint is built, not when a row is written.  For snapshots the  *)
(* comparison in create_balance is at least as strict, so the CHECK adds   *)
(* nothing; for closings, which no code under src/ creates, the rows are   *)
(* taken to respect the declared intent (closing_date not after today).    *)
(***************************************************************************)
EXTENDS Integers, Sequences, FiniteSets, TLC

\* ------------------------------------------------------------------ bounds
MaxDay == 1
TicksPerDay == 2
MaxEntries == 2
MaxSnapshots == 2
MaxLines == 2
MaxAmount == 1
MaxClosings == 1
MaxInactive == 1
DaysPerYear == 2

MaxTime == (MaxDay + 1) * TicksPerDay - 1
Times == 0..MaxTime
Days == 0..MaxDay
Amounts == 0..MaxAmount
ToolAmounts == (0 - 1)..MaxAmount

None == 0
NoDate == 0 - 1

\* datetime.date(): the calendar day of a timestamp
DateOf(ts) == ts \div TicksPerDay

\* datetime.combine(d, datetime.min.time()) and datetime.max.time()
StartOfDay(d) == d * TicksPerDay
EndOfDay(d) == d * TicksPerDay + (TicksPerDay - 1)

Abs(x) == IF x < 0 THEN 0 - x ELSE x

\* ------------------------------------------------------------- the tables
Companies == {1, 2}
Callers == {1, 2}
AccountIds == 1..4
TxIds == {1}

DebitTypes == {"ASSET", "EXPENSE"}

VARIABLES
    now,        \* timezone.now()
    accounts,   \* ChartOfAccounts rows, by primary key (in account_code order)
    journal,    \* JournalEntry rows with their JournalEntryLine rows, in creation order
    snapshots,  \* JournalEntryBalance rows
    closings,   \* AccountingClosing rows
    inflight,   \* a create_journal_entry_from_transaction call between two of its inserts
    creating,   \* per caller, the row a create_balance call has checked and not yet inserted
    companies,  \* Company rows, by primary key
    chart,      \* ChartOfAccounts rows of the companies set up while the system runs
    helper      \* the last COAHelper call: its arguments and what it returned

vars == <<now, accounts, journal, snapshots, closings, inflight, creating, companies,
          chart, helper>>


\* ChartOfAccounts fixture: company 1 has Cash, Revenue and Equity (a header
\* account with no parent, is_group_account set), company 2 has only an
\* expense account (no ASSET account to serve as contra).
InitAccounts ==
    (1 :> [company |-> 1, account_type |-> "ASSET",   cash |-> TRUE,
           normal_balance |-> "debit",  is_active |-> TRUE,
           is_group_account |-> FALSE]) @@
    (2 :> [company |-> 1, account_type |-> "REVENUE", cash |-> FALSE,
           normal_balance |-> "credit", is_active |-> TRUE,
           is_group_account |-> FALSE]) @@
    (3 :> [company |-> 1, account_type |-> "EQUITY",  cash |-> FALSE,
           normal_balance |-> "credit", is_active |-> TRUE,
           is_group_account |-> TRUE]) @@
    (4 :> [company |-> 2, account_type |-> "EXPENSE", cash |-> FALSE,
           normal_balance |-> "debit",  is_active |-> TRUE,
           is_group_account |-> FALSE])

\* Transaction rows handed to the service: the upstream producer stores any
\* extracted date (documents/tasks.py), and the CHECK transaction_amount_gte_zero
\* admits every amount >= 0
Transactions ==
    [id : TxIds, company : Companies, date : Days, amount : Amounts,
     account : AccountIds \cup {None}, is_validated : BOOLEAN]

\* Transaction objects handed to the service in memory: the static method
\* takes whatever amount the object carries, negative ones included
TransactionObjects ==
    [id : TxIds, company : Companies, date : Days,
     amount : (0 - MaxAmount)..MaxAmount,
     account : AccountIds \cup {None}, is_validated : BOOLEAN]

\* ---------------------------------------------------------- sums of lines
\* Sum('debit') over lines, filtered by account (None: every account)
RECURSIVE SumDebit(_, _)
SumDebit(lines, a) ==
    IF lines = <<>> THEN 0
    ELSE (IF a = None \/ Head(lines).account = a THEN Head(lines).debit ELSE 0)
         + SumDebit(Tail(lines), a)

\* Sum('credit') over lines, filtered by account (None: every account)
RECURSIVE SumCredit(_, _)
SumCredit(lines, a) ==
    IF lines = <<>> THEN 0
    ELSE (IF a = None \/ Head(lines).account = a THEN Head(lines).credit ELSE 0)
         + SumCredit(Tail(lines), a)

\* The filter journal_entry__company=c (None: no company filter),
\* journal_entry__date__gt=lo, journal_entry__date__lte=hi
InWindow(e, c, lo, hi) ==
    /\ c = None \/ e.company = c
    /\ e.date > lo
    /\ e.date <= hi

\* aggregate(Sum('debit')) over the JournalEntryLine rows of account a
\* joined to the entries of jr in the window
RECURSIVE AggDebit(_, _, _, _, _)
AggDebit(jr, c, a, lo, hi) ==
    IF jr = <<>> THEN 0
    ELSE (IF InWindow(Head(jr), c, lo, hi) THEN SumDebit(Head(jr).lines, a) ELSE 0)
         + AggDebit(Tail(jr), c, a, lo, hi)

RECURSIVE AggCredit(_, _, _, _, _)
AggCredit(jr, c, a, lo, hi) ==
    IF jr = <<>> THEN 0
    ELSE (IF InWindow(Head(jr), c, lo, hi) THEN SumCredit(Head(jr).lines, a) ELSE 0)
         + AggCredit(Tail(jr), c, a, lo, hi)

\* "no lower date bound"
Beginning == 0 - 1

\* JournalEntry.is_balanced
is_balanced(e) == SumDebit(e.lines, None) = SumCredit(e.lines, None)

\* ------------------------------------------------- balance snapshot manager
\* The snapshot lookup without its timestamp__lte bound
SnapshotsOfAccount(snaps, c, a, ts) ==
    {s \in snaps : s.company = c /\ s.account = a}

\* self.filter(company, account, timestamp__lte=ts)
SnapshotsUpTo(snaps, c, a, ts) ==
    {s \in snaps : s.company = c /\ s.account = a /\ s.timestamp <= ts}

\* .latest('timestamp')
Latest(ss) == CHOOSE s \in ss : \A r \in ss : r.timestamp <= s.timestamp

\* calculate_balance summing after the snapshot's day without starting from
\* the snapshot's balance
CalcBalanceFromCutoff(snaps, jr, c, a, ts) ==
    LET found == SnapshotsUpTo(snaps, c, a, ts)
        cutoff == IF found # {} THEN DateOf(Latest(found).timestamp) ELSE Beginning
    IN  AggCredit(jr, c, a, cutoff, DateOf(ts)) - AggDebit(jr, c, a, cutoff, DateOf(ts))

\* JournalEntryBalanceManager.calculate_balance on the tables (snaps, jr)
CalcBalance(snaps, jr, c, a, ts) ==
    LET found == SnapshotsUpTo(snaps, c, a, ts)
        balance == IF found # {} THEN Latest(found).balance ELSE 0
        cutoff == IF found # {} THEN DateOf(Latest(found).timestamp) ELSE Beginning
    IN  balance + (AggCredit(jr, c, a, cutoff, DateOf(ts))
                   - AggDebit(jr, c, a, cutoff, DateOf(ts)))

calculate_balance(c, a, ts) == CalcBalance(snapshots, journal, c, a, ts)

\* The loop of calculate_balances over the accounts of accts from a on
RECURSIVE CalculateBalancesFrom(_, _, _, _)
CalculateBalancesFrom(a, c, accts, ts) ==
    IF a \notin AccountIds THEN 0
    ELSE (IF a \in accts THEN calculate_balance(c, a, ts) ELSE 0)
         + CalculateBalancesFrom(a + 1, c, accts, ts)

\* JournalEntryBalanceManager.calculate_balances(company, accounts, timestamp)
calculate_balances(c, accts, ts) == CalculateBalancesFrom(1, c, accts, ts)

\* Sum('credit') (side "credit") or Sum('debit') over the lines with
\* account__in=accts dated start..end, over the accounts from a on
RECURSIVE CreditsDebitsFrom(_, _, _, _, _, _)
CreditsDebitsFrom(a, c, accts, start, end, side) ==
    IF a \notin AccountIds THEN 0
    ELSE (IF a \notin accts THEN 0
          ELSE IF side = "credit" THEN AggCredit(journal, c, a, start - 1, end)
          ELSE AggDebit(journal, c, a, start - 1, end))
         + CreditsDebitsFrom(a + 1, c, accts, start, end, side)

\* JournalEntryBalanceManager.credits_debits(company, accounts, start_date, end_date)
credits_debits(c, accts, start, end) ==
    <<CreditsDebitsFrom(1, c, accts, start, end, "credit"),
      CreditsDebitsFrom(1, c, accts, start, end, "debit")>>

\* A caller of calculate_balance: the method only queries
calculate_balance_call(c, a, ts) ==
    /\ calculate_balance(c, a, ts) \in Int
    /\ UNCHANGED vars

\* A caller of calculate_balances: the method only queries
calculate_balances_call(c, accts, ts) ==
    /\ calculate_balances(c, accts, ts) \in Int
    /\ UNCHANGED vars

\* A caller of credits_debits: the method only queries
credits_debits_call(c, accts, start, end) ==
    /\ credits_debits(c, accts, start, end) \in Int \X Int
    /\ UNCHANGED vars

\* TrialBalanceService._calculate_balance_direct; start = NoDate: start_date is None
DirectBalance(jr, c, a, start, end) ==
    LET lo == IF start = NoDate THEN Beginning ELSE start - 1
    IN  AggCredit(jr, c, a, lo, end) - AggDebit(jr, c, a, lo, end)

_calculate_balance_direct(c, a, start, end) == DirectBalance(journal, c, a, start, end)

\* --------------------------------------------------------- guard layer
\* core.validators: TRUE when the validator raises.  No handler of the
\* repository calls any of them.
validate_timestamp_not_in_future(ts) == ts > now

\* The fields of a Company row the validator can look at
CompanyFields == {"is_active"}

\* hasattr(company, 'is_archived') and company.is_archived
validate_company_not_archived(c) ==
    /\ "is_archived" \in CompanyFields
    /\ companies[c]["is_archived"]

validate_timestamp_after_last_closing(c, ts) ==
    LET closed == {cl \in closings : cl.company = c /\ cl.status = "CLOSED"}
    IN  /\ closed # {}
        /\ \E cl \in closed :
              /\ \A other \in closed : other.closing_date <= cl.closing_date
              /\ DateOf(ts) <= cl.closing_date

validate_timestamp_after_last_balance(c, a, ts) ==
    LET mine == {s \in snapshots : s.company = c /\ s.account = a}
    IN  /\ mine # {}
        /\ ts <= Latest(mine).timestamp

\* ------------------------------------------------------ journal entry rows
\* The CHECK constraints of JournalEntryLine: debit >= 0, credit >= 0 and
\* not both positive
LineAdmitted(l) ==
    /\ l.debit >= 0
    /\ l.credit >= 0
    /\ ~(l.debit > 0 /\ l.credit > 0)

\* JournalEntryLine.objects.create for each line in turn: every insert
\* commits on its own, and the first rejected one raises IntegrityError
\* and ends the loop
RECURSIVE Inserted(_)
Inserted(lines) ==
    IF lines = <<>> THEN <<>>
    ELSE IF LineAdmitted(Head(lines)) THEN <<Head(lines)>> \o Inserted(Tail(lines))
    ELSE <<>>

Line(a, d, c) == [account |-> a, debit |-> d, credit |-> c]

\* AccountingService._get_default_contra_account: the first ASSET account of
\* the company named like "cash", else its first ASSET account, else nothing
\* (ValueError); Meta.ordering is account_code
_get_default_contra_account(company) ==
    LET cashLike == {a \in AccountIds : /\ accounts[a].company = company
                                        /\ accounts[a].account_type = "ASSET"
                                        /\ accounts[a].cash}
        assets == {a \in AccountIds : /\ accounts[a].company = company
                                      /\ accounts[a].account_type = "ASSET"}
        first(S) == CHOOSE a \in S : \A b \in S : a <= b
    IN  IF cashLike # {} THEN first(cashLike)
        ELSE IF assets # {} THEN first(assets)
        ELSE None

\* The two lines posted as for a positive amount, whatever its sign
TransactionLinesUnsigned(t, contra) ==
    IF accounts[t.account].account_type \in DebitTypes
    THEN <<Line(t.account, Abs(t.amount), 0), Line(contra, 0, Abs(t.amount))>>
    ELSE <<Line(t.account, 0, Abs(t.amount)), Line(contra, Abs(t.amount), 0)>>

\* The two lines create_journal_entry_from_transaction posts, target first
TransactionLines(t, contra) ==
    LET amount == Abs(t.amount)
        debitSide == accounts[t.account].account_type \in DebitTypes
    IN  IF (t.amount > 0) = debitSide
        THEN <<Line(t.account, amount, 0), Line(contra, 0, amount)>>
        ELSE <<Line(t.account, 0, amount), Line(contra, amount, 0)>>

\* What create_journal_entry_from_transaction raises on t ("ok": returns)
CjeftResult(t) ==
    IF ~t.is_validated \/ t.account = None THEN "ValueError"
    ELSE IF _get_default_contra_account(t.company) = None THEN "ValueError"
    ELSE IF Inserted(TransactionLines(t, _get_default_contra_account(t.company)))
            # TransactionLines(t, _get_default_contra_account(t.company))
         THEN "IntegrityError"
    ELSE "ok"

\* The journal after create_journal_entry_from_transaction(t): the entry row
\* is created before the contra account is looked up
CjeftJournal(t) ==
    LET entry == [company |-> t.company, date |-> t.date,
                  reference |-> t.id, lines |-> <<>>]
        contra == _get_default_contra_account(t.company)
    IN  IF ~t.is_validated \/ t.account = None THEN journal
        ELSE IF contra = None THEN Append(journal, entry)
        ELSE Append(journal,
                    [entry EXCEPT !.lines = Inserted(TransactionLines(t, contra))])

\* AccountingService.create_journal_entry_from_transaction(transaction)
create_journal_entry_from_transaction(t) ==
    /\ Len(journal) < MaxEntries
    /\ journal' = CjeftJournal(t)
    /\ UNCHANGED <<now, accounts, snapshots, closings, inflight, creating, companies, chart, helper>>

\* create_journal_entry_from_transaction called by a client that posts forward
\* only: no line of the entry goes to an account that has a snapshot on or
\* after the entry's day
post_after_snapshots(t) ==
    LET posted == IF CjeftJournal(t) = journal THEN <<>>
                  ELSE CjeftJournal(t)[Len(journal) + 1].lines
    IN  /\ \A k \in 1..Len(posted) : \A s \in snapshots :
              s.account = posted[k].account => t.date > DateOf(s.timestamp)
        /\ create_journal_entry_from_transaction(t)

\* No create_journal_entry_from_transaction call is between two inserts
NoCreation == [entry |-> 0, lines |-> <<>>]

\* create_journal_entry_from_transaction up to its first line insert: the
\* JournalEntry row is committed, then the contra account is looked up
begin_journal_entry(t) ==
    /\ inflight = NoCreation
    /\ Len(journal) < MaxEntries
    /\ t.is_validated
    /\ t.account # None
    /\ journal' = Append(journal, [company |-> t.company, date |-> t.date,
                                   reference |-> t.id, lines |-> <<>>])
    /\ inflight' = IF _get_default_contra_account(t.company) = None THEN NoCreation
                   ELSE [entry |-> Len(journal) + 1,
                         lines |-> TransactionLines(t, _get_default_contra_account(t.company))]
    /\ UNCHANGED <<now, accounts, snapshots, closings, creating, companies, chart, helper>>

\* The next JournalEntryLine.objects.create of the call in flight, committed
\* on its own; a rejected insert raises and ends the call
insert_line ==
    /\ inflight # NoCreation
    /\ IF LineAdmitted(Head(inflight.lines))
       THEN /\ journal' = [journal EXCEPT ![inflight.entry].lines =
                                              Append(@, Head(inflight.lines))]
            /\ inflight' = IF Tail(inflight.lines) = <<>> THEN NoCreation
                           ELSE [inflight EXCEPT !.lines = Tail(@)]
       ELSE /\ journal' = journal
            /\ inflight' = NoCreation
    /\ UNCHANGED <<now, accounts, snapshots, closings, creating, companies, chart, helper>>

\* TransactionViewSet.validate: marks the transaction validated, posts it when
\* it has an account, swallows whatever the service raises, answers 200
validate(t) ==
    LET marked == [t EXCEPT !.is_validated = TRUE]
    IN  /\ Len(journal) < MaxEntries
        /\ journal' = IF t.account # None THEN CjeftJournal(marked) ELSE journal
        /\ UNCHANGED <<now, accounts, snapshots, closings, inflight, creating, companies, chart, helper>>

\* Requests to the create_journal_entry tool
ToolLines ==
    {l \in [account_code : AccountIds, debit : ToolAmounts, credit : ToolAmounts] :
        l.debit = 0 \/ l.credit = 0}
ToolLineSeqs == UNION {[1..n -> ToolLines] : n \in 0..MaxLines}
ToolRequests == [company_id : Companies, date : Days, lines : ToolLineSeqs]

\* ChartOfAccounts.objects.get(company_id=..., code=..., is_active=True)
AccountFound(company_id, code) ==
    /\ accounts[code].company = company_id
    /\ accounts[code].is_active

ToolEntryLines(req) ==
    [i \in 1..Len(req.lines) |->
        Line(req.lines[i].account_code, req.lines[i].debit, req.lines[i].credit)]

\* What create_journal_entry_tool answers
ToolResult(req) ==
    IF \E i \in 1..Len(req.lines) : ~AccountFound(req.company_id, req.lines[i].account_code)
    THEN "account not found"
    ELSE IF SumDebit(ToolEntryLines(req), None) # SumCredit(ToolEntryLines(req), None)
    THEN "debits do not equal credits"
    ELSE IF Inserted(ToolEntryLines(req)) # ToolEntryLines(req)
    THEN "IntegrityError"
    ELSE "ok"

\* The journal after create_journal_entry_tool(req): nothing is written when
\* an account is missing or the totals differ; otherwise the entry row and
\* then its lines, up to the first one the database rejects
ToolJournal(req) ==
    IF ToolResult(req) \in {"ok", "IntegrityError"}
    THEN Append(journal, [company |-> req.company_id, date |-> req.date,
                          reference |-> None,
                          lines |-> Inserted(ToolEntryLines(req))])
    ELSE journal

\* mcp_server.tools.create_journal_entry_tool(params)
create_journal_entry_tool(req) ==
    /\ Len(journal) < MaxEntries
    /\ journal' = ToolJournal(req)
    /\ UNCHANGED <<now, accounts, snapshots, closings, inflight, creating, companies, chart, helper>>

\* ------------------------------------------------------ snapshot creation
\* The lookup with timestamp__gt in place of timestamp__gte
NewerSnapshotExistsStrict(snaps, c, a, ts) ==
    \E s \in snaps : s.company = c /\ s.account = a /\ s.timestamp > ts

\* self.filter(company, account, timestamp__gte=timestamp).exists()
NewerSnapshotExists(snaps, c, a, ts) ==
    \E s \in snaps : s.company = c /\ s.account = a /\ s.timestamp >= ts

\* UniqueConstraint unique_balance_snapshot on (company, account, timestamp)
UniqueViolation(snaps, c, a, ts) ==
    \E s \in snaps : s.company = c /\ s.account = a /\ s.timestamp = ts

\* create_balance without its comparison against timezone.now()
CreateBalanceResultNoClock(snaps, c, a, ts) ==
    IF NewerSnapshotExists(snaps, c, a, ts) THEN "RetroactiveOperationError"
    ELSE IF UniqueViolation(snaps, c, a, ts) THEN "IntegrityError"
    ELSE "ok"

\* create_balance with the comparison against timezone.now() only
CreateBalanceResultClockOnly(snaps, c, a, ts) ==
    IF ts > now THEN "FutureOperationError" ELSE "ok"

\* What create_balance raises ("ok": returns the new row)
CreateBalanceResult(snaps, c, a, ts) ==
    IF ts > now THEN "FutureOperationError"
    ELSE IF NewerSnapshotExists(snaps, c, a, ts) THEN "RetroactiveOperationError"
    ELSE IF UniqueViolation(snaps, c, a, ts) THEN "IntegrityError"
    ELSE "ok"

\* create_balance keeping one row per account: the new row replaces the
\* account's earlier ones
CreateBalanceTableReplacing(snaps, c, a, ts) ==
    IF CreateBalanceResult(snaps, c, a, ts) = "ok"
    THEN {s \in snaps : ~(s.company = c /\ s.account = a)}
         \cup {[company |-> c, account |-> a, timestamp |-> ts,
                balance |-> CalcBalance(snaps, journal, c, a, ts)]}
    ELSE snaps

\* The snapshot table after create_balance(c, a, ts)
CreateBalanceTable(snaps, c, a, ts) ==
    IF CreateBalanceResult(snaps, c, a, ts) = "ok"
    THEN snaps \cup {[company |-> c, account |-> a, timestamp |-> ts,
                      balance |-> CalcBalance(snaps, journal, c, a, ts)]}
    ELSE snaps

\* JournalEntryBalanceManager.create_balance(company, account, timestamp)
create_balance(c, a, ts) ==
    /\ Cardinality(CreateBalanceTable(snapshots, c, a, ts)) <= MaxSnapshots
    /\ snapshots' = CreateBalanceTable(snapshots, c, a, ts)
    /\ UNCHANGED <<now, accounts, journal, closings, inflight, creating, companies, chart, helper>>

\* The caller is not inside create_balance
Idle == [company |-> None, account |-> None, timestamp |-> 0, balance |-> 0]

\* create_balance of caller k up to its INSERT: the two comparisons pass and
\* the balance is computed (a call that raises changes nothing)
create_balance_check(k, c, a, ts) ==
    /\ creating[k] = Idle
    /\ ~(ts > now)
    /\ ~NewerSnapshotExists(snapshots, c, a, ts)
    /\ creating' = [creating EXCEPT ![k] =
                        [company |-> c, account |-> a, timestamp |-> ts,
                         balance |-> calculate_balance(c, a, ts)]]
    /\ UNCHANGED <<now, accounts, journal, snapshots, closings, inflight, companies, chart, helper>>

\* The INSERT of caller k's row (self.create): the unique constraint rejects
\* a second row of the same company, account and timestamp
create_balance_insert(k) ==
    /\ creating[k] # Idle
    /\ Cardinality(snapshots) < MaxSnapshots
    /\ snapshots' = IF UniqueViolation(snapshots, creating[k].company,
                                       creating[k].account, creating[k].timestamp)
                    THEN snapshots
                    ELSE snapshots \cup {creating[k]}
    /\ creating' = [creating EXCEPT ![k] = Idle]
    /\ UNCHANGED <<now, accounts, journal, closings, inflight, companies, chart, helper>>

\* JournalEntryLine rows of account a in entries of company c dated after lo
LinesExist(c, a, lo) ==
    \E i \in 1..Len(journal) :
        /\ journal[i].company = c
        /\ journal[i].date > lo
        /\ \E k \in 1..Len(journal[i].lines) : journal[i].lines[k].account = a

\* The loop body without its "new entries after the last snapshot" test
SaveBalanceStepAlways(snaps, c, a, ts) ==
    IF ~LinesExist(c, a, Beginning) THEN snaps
    ELSE CreateBalanceTable(snaps, c, a, ts)

\* The body of the loop of save_balances for one account
SaveBalanceStep(snaps, c, a, ts) ==
    LET mine == {s \in snaps : s.company = c /\ s.account = a}
    IN  IF ~LinesExist(c, a, Beginning) THEN snaps
        ELSE IF mine # {} /\ ~LinesExist(c, a, DateOf(Latest(mine).timestamp)) THEN snaps
        ELSE CreateBalanceTable(snaps, c, a, ts)

\* The loop body of save_balances reaches create_balance for account a and
\* create_balance stores a row
SaveBalanceCreates(snaps, c, a, ts) ==
    LET mine == {s \in snaps : s.company = c /\ s.account = a}
    IN  /\ accounts[a].company = c
        /\ accounts[a].is_active
        /\ LinesExist(c, a, Beginning)
        /\ mine # {} => LinesExist(c, a, DateOf(Latest(mine).timestamp))
        /\ CreateBalanceResult(snaps, c, a, ts) = "ok"

\* The loop of save_balances over the accounts from a on, in account_code order
RECURSIVE SaveBalancesFrom(_, _, _, _)
SaveBalancesFrom(snaps, c, a, ts) ==
    IF a \notin AccountIds THEN snaps
    ELSE IF accounts[a].company = c /\ accounts[a].is_active
         THEN SaveBalancesFrom(SaveBalanceStep(snaps, c, a, ts), c, a + 1, ts)
         ELSE SaveBalancesFrom(snaps, c, a + 1, ts)

\* The loop body of save_balances calls create_balance for account a
SaveBalanceReaches(snaps, c, a, ts) ==
    LET mine == {s \in snaps : s.company = c /\ s.account = a}
    IN  /\ accounts[a].company = c
        /\ accounts[a].is_active
        /\ LinesExist(c, a, Beginning)
        /\ mine # {} => LinesExist(c, a, DateOf(Latest(mine).timestamp))

\* What save_balances raises, over the accounts from a on ("ok": returns):
\* FutureOperationError and RetroactiveOperationError of create_balance are
\* caught and the loop goes on, anything else leaves the loop
RECURSIVE SaveBalancesResultFrom(_, _, _, _)
SaveBalancesResultFrom(snaps, c, a, ts) ==
    IF a \notin AccountIds THEN "ok"
    ELSE IF /\ SaveBalanceReaches(snaps, c, a, ts)
            /\ CreateBalanceResult(snaps, c, a, ts)
                   \notin {"ok", "FutureOperationError", "RetroactiveOperationError"}
         THEN CreateBalanceResult(snaps, c, a, ts)
    ELSE IF accounts[a].company = c /\ accounts[a].is_active
         THEN SaveBalancesResultFrom(SaveBalanceStep(snaps, c, a, ts), c, a + 1, ts)
         ELSE SaveBalancesResultFrom(snaps, c, a + 1, ts)

SaveBalancesResult(c, ts) == SaveBalancesResultFrom(snapshots, c, 1, ts)

\* JournalEntryBalanceManager.save_balances(company, timestamp)
save_balances(c, ts) ==
    /\ Cardinality(SaveBalancesFrom(snapshots, c, 1, ts)) <= MaxSnapshots
    /\ snapshots' = SaveBalancesFrom(snapshots, c, 1, ts)
    /\ UNCHANGED <<now, accounts, journal, closings, inflight, creating, companies, chart, helper>>

\* ------------------------------------------------------------- reports
\* ChartOfAccounts.objects.filter(company=company, is_active=True)
ActiveAccounts(c) ==
    {a \in AccountIds : accounts[a].company = c /\ accounts[a].is_active}

\* TrialBalanceService._calculate_balance_with_snapshots; start = NoDate:
\* start_date is None
_calculate_balance_with_snapshots(c, a, start, end) ==
    LET balance == calculate_balance(c, a, EndOfDay(end))
    IN  IF start # NoDate
        THEN balance - calculate_balance(c, a, StartOfDay(start))
        ELSE balance

\* The balance TrialBalanceService.generate computes for one account
TrialBalanceOf(c, a, start, end, use_snapshots) ==
    IF use_snapshots THEN _calculate_balance_with_snapshots(c, a, start, end)
    ELSE _calculate_balance_direct(c, a, start, end)

\* The debit column of one account in TrialBalanceService.generate
\* (0 for an account that is skipped)
DebitColumn(normal_balance, balance) ==
    IF balance = 0 THEN 0
    ELSE IF normal_balance = "debit"
         THEN (IF balance >= 0 THEN balance ELSE 0)
         ELSE (IF balance >= 0 THEN 0 ELSE Abs(balance))

\* The credit column of one account in TrialBalanceService.generate
CreditColumn(normal_balance, balance) ==
    IF balance = 0 THEN 0
    ELSE IF normal_balance = "debit"
         THEN (IF balance >= 0 THEN 0 ELSE Abs(balance))
         ELSE (IF balance >= 0 THEN balance ELSE 0)

\* totals.total_debits of TrialBalanceService.generate, over the accounts from a on
RECURSIVE TotalDebitsFrom(_, _, _, _, _)
TotalDebitsFrom(a, c, start, end, use_snapshots) ==
    IF a \notin AccountIds THEN 0
    ELSE (IF a \in ActiveAccounts(c)
          THEN DebitColumn(accounts[a].normal_balance,
                           TrialBalanceOf(c, a, start, end, use_snapshots))
          ELSE 0)
         + TotalDebitsFrom(a + 1, c, start, end, use_snapshots)

\* totals.total_credits of TrialBalanceService.generate, over the accounts from a on
RECURSIVE TotalCreditsFrom(_, _, _, _, _)
TotalCreditsFrom(a, c, start, end, use_snapshots) ==
    IF a \notin AccountIds THEN 0
    ELSE (IF a \in ActiveAccounts(c)
          THEN CreditColumn(accounts[a].normal_balance,
                            TrialBalanceOf(c, a, start, end, use_snapshots))
          ELSE 0)
         + TotalCreditsFrom(a + 1, c, start, end, use_snapshots)

\* TrialBalanceService.generate(...)['totals']
generate(c, start, end, use_snapshots) ==
    LET total_debits == TotalDebitsFrom(1, c, start, end, use_snapshots)
        total_credits == TotalCreditsFrom(1, c, start, end, use_snapshots)
    IN  [total_debits |-> total_debits,
         total_credits |-> total_credits,
         difference |-> total_debits - total_credits,
         is_balanced |-> Abs(total_debits - total_credits) < 1]

\* AccountingService.calculate_account_balance: every line of the account,
\* whatever the company of its entry; start = NoDate: no start_date
calculate_account_balance(a, start, end) ==
    LET lo == IF start = NoDate THEN Beginning ELSE start - 1
        total_debit == AggDebit(journal, None, a, lo, end)
        total_credit == AggCredit(journal, None, a, lo, end)
    IN  IF accounts[a].account_type \in DebitTypes
        THEN total_debit - total_credit
        ELSE total_credit - total_debit

\* The row of AccountingService.get_trial_balance(end_date) for account a
get_trial_balance(a, end) ==
    LET balance == calculate_account_balance(a, NoDate, end)
    IN  IF accounts[a].account_type \in DebitTypes
        THEN [debit |-> IF balance > 0 THEN balance ELSE 0,
              credit |-> IF balance < 0 THEN Abs(balance) ELSE 0]
        ELSE [debit |-> IF balance < 0 THEN Abs(balance) ELSE 0,
              credit |-> IF balance > 0 THEN balance ELSE 0]

\* Sum of calculate_account_balance over the active accounts of company c
\* of the given type, from account a on
RECURSIVE TypeTotalFrom(_, _, _, _, _)
TypeTotalFrom(a, c, type, start, end) ==
    IF a \notin AccountIds THEN 0
    ELSE (IF a \in ActiveAccounts(c) /\ accounts[a].account_type = type
          THEN calculate_account_balance(a, start, end) ELSE 0)
         + TypeTotalFrom(a + 1, c, type, start, end)

\* date(end_date.year, 1, 1)
YearStart(d) == d - (d % DaysPerYear)

\* AccountingService.calculate_net_income(end_date=end): the income statement
\* from the first day of end's year
calculate_net_income(c, end) ==
    TypeTotalFrom(1, c, "REVENUE", YearStart(end), end)
    - TypeTotalFrom(1, c, "EXPENSE", YearStart(end), end)

\* AccountingService.get_balance_sheet(end_date)
get_balance_sheet(c, end) ==
    LET total_assets == TypeTotalFrom(1, c, "ASSET", NoDate, end)
        total_liabilities == TypeTotalFrom(1, c, "LIABILITY", NoDate, end)
        total_equity == TypeTotalFrom(1, c, "EQUITY", NoDate, end)
                        + calculate_net_income(c, end)
    IN  [total_assets |-> total_assets,
         total_liabilities |-> total_liabilities,
         total_equity |-> total_equity,
         balanced |-> Abs(total_assets - (total_liabilities + total_equity)) < 1]

\* ----------------------------------------------------- accounting closings
Statuses == {"OPEN", "CLOSED", "AUDITED"}

\* AccountingClosing.objects.create(company, closing_date): status defaults to
\* OPEN; the CHECK closing_date_not_future rejects a future closing_date
add_closing(c, d) ==
    /\ Cardinality(closings) < MaxClosings
    /\ d <= DateOf(now)
    /\ closings' = closings \cup {[company |-> c, closing_date |-> d, status |-> "OPEN"]}
    /\ UNCHANGED <<now, accounts, journal, snapshots, inflight, creating, companies, chart, helper>>

\* AccountingClosing.status moves OPEN -> CLOSED -> AUDITED
NextStatus(st) == IF st = "OPEN" THEN "CLOSED" ELSE "AUDITED"

advance_closing(cl) ==
    /\ cl \in closings
    /\ cl.status # "AUDITED"
    /\ closings' = (closings \ {cl}) \cup {[cl EXCEPT !.status = NextStatus(cl.status)]}
    /\ UNCHANGED <<now, accounts, journal, snapshots, inflight, creating, companies, chart, helper>>

\* ------------------------------------------------- chart of accounts, clock
\* ChartOfAccountsViewSet update of is_active (soft deactivation)
set_account_active(a, flag) ==
    /\ accounts[a].is_active # flag
    /\ flag \/ Cardinality({b \in AccountIds : ~accounts[b].is_active}) < MaxInactive
    /\ accounts' = [accounts EXCEPT ![a].is_active = flag]
    /\ UNCHANGED <<now, journal, snapshots, closings, inflight, creating, companies, chart, helper>>

\* CompanyViewSet update of is_active (deactivation of a company)
set_company_active(c, flag) ==
    /\ companies[c].is_active # flag
    /\ companies' = [companies EXCEPT ![c].is_active = flag]
    /\ UNCHANGED <<now, accounts, journal, snapshots, closings, inflight, creating, chart, helper>>

\* Companies created while the system runs: they start with no account, no
\* transaction and no journal entry
NewCompanies == {3}

\* DefaultCOAGenerator.DEFAULT_ACCOUNTS, one header account and one posting
\* account of each type out of the list
DEFAULT_ACCOUNTS ==
    <<[code |-> "1000", type |-> "ASSET",     is_group |-> TRUE],
      [code |-> "1110", type |-> "ASSET",     is_group |-> FALSE],
      [code |-> "2110", type |-> "LIABILITY", is_group |-> FALSE],
      [code |-> "3100", type |-> "EQUITY",    is_group |-> FALSE],
      [code |-> "4110", type |-> "REVENUE",   is_group |-> FALSE],
      [code |-> "5110", type |-> "EXPENSE",   is_group |-> FALSE]>>

\* ChartOfAccounts.ACCOUNT_TYPES
ACCOUNT_TYPES == {"ASSET", "LIABILITY", "EQUITY", "REVENUE", "EXPENSE"}

\* account_code values sent to the accounts endpoint
RequestCodes == {"2110", "6000"}

\* ChartOfAccounts.objects.create without normal_balance: the column default
\* 'debit' is stored
NewAccount(c, code, type, is_group) ==
    [company |-> c, account_code |-> code, account_type |-> type,
     is_group_account |-> is_group, normal_balance |-> "debit", is_active |-> TRUE]

\* The rows DefaultCOAGenerator.generate creates for company c
DefaultCOA(c) ==
    {NewAccount(c, DEFAULT_ACCOUNTS[i].code, DEFAULT_ACCOUNTS[i].type,
                DEFAULT_ACCOUNTS[i].is_group) : i \in 1..Len(DEFAULT_ACCOUNTS)}

\* CompanyViewSet.initialize_default_coa -> DefaultCOAGenerator.generate:
\* skipped when the company has accounts and overwrite is not set; otherwise
\* the company's accounts are deleted and the default ones created
initialize_default_coa(c, overwrite) ==
    LET existing == {r \in chart : r.company = c}
    IN  /\ chart' = IF existing # {} /\ ~overwrite THEN chart
                     ELSE (chart \ existing) \cup DefaultCOA(c)
        /\ UNCHANGED <<now, accounts, journal, snapshots, closings, inflight,
                       creating, companies, helper>>

\* ChartOfAccountsViewSet.create: the serializer takes neither normal_balance
\* nor is_group_account, and unique_together (company, account_code) rejects
\* a second row of the same code
create_account(c, code, type) ==
    /\ ~\E r \in chart : r.company = c /\ r.account_code = code
    /\ chart' = chart \cup {NewAccount(c, code, type, FALSE)}
    /\ UNCHANGED <<now, accounts, journal, snapshots, closings, inflight,
                   creating, companies, helper>>

\* ChartOfAccountsViewSet.destroy
destroy_account(r) ==
    /\ r \in chart
    /\ chart' = chart \ {r}
    /\ UNCHANGED <<now, accounts, journal, snapshots, closings, inflight,
                   creating, companies, helper>>

\* ------------------------------------------------------------- COAHelper
\* An account code is a string, taken character by character
CodeChars == {"1", "2", "."}
MaxCodeLen == 3
MaxCodes == 2
AccountCodes == UNION {[1..n -> CodeChars] : n \in 0..MaxCodeLen}
CodeLists == UNION {[1..n -> AccountCodes] : n \in 0..MaxCodes}

\* Python's None as a return value of get_parent: no string equals it
NoCode == <<"None">>

\* str.split('.')
RECURSIVE Split(_)
Split(code) ==
    IF \A i \in 1..Len(code) : code[i] # "."
    THEN <<code>>
    ELSE LET dot == CHOOSE i \in 1..Len(code) :
                        code[i] = "." /\ \A j \in 1..(i - 1) : code[j] # "."
         IN  <<SubSeq(code, 1, dot - 1)>> \o Split(SubSeq(code, dot + 1, Len(code)))

\* '.'.join(parts)
RECURSIVE Join(_)
Join(parts) ==
    IF parts = <<>> THEN <<>>
    ELSE IF Len(parts) = 1 THEN parts[1]
    ELSE parts[1] \o <<".">> \o Join(Tail(parts))

\* str.startswith
startswith(str, prefix) ==
    /\ Len(str) >= Len(prefix)
    /\ SubSeq(str, 1, Len(prefix)) = prefix

\* COAHelper.get_parent(account_code)
get_parent(account_code) ==
    LET parts == Split(account_code)
    IN  IF Len(parts) <= 1 THEN NoCode
        ELSE Join(SubSeq(parts, 1, Len(parts) - 1))

\* The test of get_children without its look at the remaining characters
IsDescendant(acc, account_code) ==
    startswith(acc, account_code \o <<".">>)

\* The test of get_children on one code of all_accounts
IsDirectChild(acc, account_code) ==
    /\ startswith(acc, account_code \o <<".">>)
    /\ LET remaining == SubSeq(acc, Len(account_code) + 2, Len(acc))
       IN  \A i \in 1..Len(remaining) : remaining[i] # "."

\* COAHelper.get_children(account_code, all_accounts)
RECURSIVE get_children(_, _)
get_children(account_code, all_accounts) ==
    IF all_accounts = <<>> THEN <<>>
    ELSE (IF IsDirectChild(Head(all_accounts), account_code)
          THEN <<Head(all_accounts)>> ELSE <<>>)
         \o get_children(account_code, Tail(all_accounts))

\* No COAHelper call has been made
NoCall == [method |-> "none", account_code |-> <<>>, all_accounts |-> <<>>,
           result |-> <<>>]

\* A caller of COAHelper.get_parent, with any code (one call is followed)
get_parent_call ==
    /\ helper = NoCall
    /\ \E account_code \in AccountCodes :
          helper' = [method |-> "get_parent", account_code |-> account_code,
                     all_accounts |-> <<>>, result |-> get_parent(account_code)]
    /\ UNCHANGED <<now, accounts, journal, snapshots, closings, inflight, creating,
                   companies, chart>>

\* A caller of COAHelper.get_children, with any code and list of codes
get_children_call ==
    /\ helper = NoCall
    /\ \E account_code \in AccountCodes, all_accounts \in CodeLists :
          helper' = [method |-> "get_children", account_code |-> account_code,
                     all_accounts |-> all_accounts,
                     result |-> get_children(account_code, all_accounts)]
    /\ UNCHANGED <<now, accounts, journal, snapshots, closings, inflight, creating,
                   companies, chart>>

\* time passes
Tick ==
    /\ now < MaxTime
    /\ now' = now + 1
    /\ UNCHANGED <<accounts, journal, snapshots, closings, inflight, creating, companies, chart, helper>>

\* --------------------------------------------------------- specification
Init ==
    /\ now = 0
    /\ accounts = InitAccounts
    /\ journal = <<>>
    /\ snapshots = {}
    /\ closings = {}
    /\ inflight = NoCreation
    /\ creating = [k \in Callers |-> Idle]
    /\ companies = [c \in Companies |-> [is_active |-> TRUE]]
    /\ chart = {}
    /\ helper = NoCall

Next ==
    \/ Tick
    \/ \E t \in Transactions : create_journal_entry_from_transaction(t)
    \/ \E t \in Transactions : validate(t)
    \/ \E req \in ToolRequests : create_journal_entry_tool(req)
    \/ \E a \in AccountIds, ts \in Times : create_balance(accounts[a].company, a, ts)
    \/ \E c \in Companies, ts \in Times : save_balances(c, ts)
    \/ \E c \in Companies, d \in Days : add_closing(c, d)
    \/ \E cl \in closings : advance_closing(cl)
    \/ \E a \in AccountIds, flag \in BOOLEAN : set_account_active(a, flag)
    \/ \E t \in Transactions : begin_journal_entry(t)
    \/ insert_line
    \/ \E k \in Callers, a \in AccountIds, ts \in Times :
          create_balance_check(k, accounts[a].company, a, ts)
    \/ \E k \in Callers : create_balance_insert(k)
    \/ \E c \in Companies, flag \in BOOLEAN : set_company_active(c, flag)
    \/ \E a \in AccountIds : calculate_balance_call(accounts[a].company, a, now)
    \/ \E c \in Companies : calculate_balances_call(c, ActiveAccounts(c), now)
    \/ \E c \in Companies, start \in Days :
          credits_debits_call(c, ActiveAccounts(c), start, DateOf(now))
    \/ \E c \in NewCompanies, overwrite \in BOOLEAN : initialize_default_coa(c, overwrite)
    \/ \E c \in NewCompanies, code \in RequestCodes, type \in ACCOUNT_TYPES :
          create_account(c, code, type)
    \/ \E r \in chart : destroy_account(r)
    \/ get_parent_call
    \/ get_children_call

Spec == Init /\ [][Next]_vars

\* The snapshot manager over a journal posted from transactions
NextSnapshots ==
    \/ Tick
    \/ \E t \in Transactions : create_journal_entry_from_transaction(t)
    \/ \E t \in Transactions : validate(t)
    \/ \E a \in AccountIds, ts \in Times : create_balance(accounts[a].company, a, ts)
    \/ \E c \in Companies, ts \in Times : save_balances(c, ts)

SpecSnapshots == Init /\ [][NextSnapshots]_vars

\* Posting from transactions, closings and account maintenance
NextJournal ==
    \/ Tick
    \/ \E t \in Transactions : create_journal_entry_from_transaction(t)
    \/ \E t \in Transactions : validate(t)
    \/ \E c \in Companies, d \in Days : add_closing(c, d)
    \/ \E cl \in closings : advance_closing(cl)
    \/ \E a \in AccountIds, flag \in BOOLEAN : set_account_active(a, flag)

SpecJournal == Init /\ [][NextJournal]_vars

\* The create_journal_entry tool and account maintenance
NextTool ==
    \/ \E req \in ToolRequests : create_journal_entry_tool(req)
    \/ \E a \in AccountIds, flag \in BOOLEAN : set_account_active(a, flag)

SpecTool == Init /\ [][NextTool]_vars

\* One posting call taken insert by insert, with the snapshot manager and the
\* clock running beside it
NextInterleaved ==
    \/ Tick
    \/ \E t \in Transactions : begin_journal_entry(t)
    \/ insert_line
    \/ \E a \in AccountIds, ts \in Times : create_balance(accounts[a].company, a, ts)

SpecInterleaved == Init /\ [][NextInterleaved]_vars

\* Concurrent create_balance calls taken in two steps each, with the clock
NextConcurrent ==
    \/ Tick
    \/ \E k \in Callers, a \in AccountIds, ts \in Times :
          create_balance_check(k, accounts[a].company, a, ts)
    \/ \E k \in Callers : create_balance_insert(k)

SpecConcurrent == Init /\ [][NextConcurrent]_vars

\* The posting service on transaction objects of either sign, beside account
\* maintenance
NextPosting ==
    \/ \E t \in TransactionObjects : create_journal_entry_from_transaction(t)
    \/ \E a \in AccountIds, flag \in BOOLEAN : set_account_active(a, flag)

SpecPosting == Init /\ [][NextPosting]_vars

\* The snapshot manager with its read methods (timestamp and end_date left to
\* their default, the current time), over a journal posted from transactions
NextManager ==
    \/ Tick
    \/ \E t \in Transactions : validate(t)
    \/ \E a \in AccountIds, ts \in Times : create_balance(accounts[a].company, a, ts)
    \/ \E c \in Companies, ts \in Times : save_balances(c, ts)
    \/ \E a \in AccountIds : calculate_balance_call(accounts[a].company, a, now)
    \/ \E c \in Companies : calculate_balances_call(c, ActiveAccounts(c), now)
    \/ \E c \in Companies, start \in Days :
          credits_debits_call(c, ActiveAccounts(c), start, DateOf(now))

SpecManager == Init /\ [][NextManager]_vars

\* Posting and snapshot creation beside the deactivation of companies
NextCompanies ==
    \/ \E t \in Transactions : validate(t)
    \/ \E a \in AccountIds, ts \in Times : create_balance(accounts[a].company, a, ts)
    \/ \E c \in Companies, flag \in BOOLEAN : set_company_active(c, flag)

SpecCompanies == Init /\ [][NextCompanies]_vars

\* Setting up the chart of accounts of a new company
NextChart ==
    \/ \E c \in NewCompanies, overwrite \in BOOLEAN : initialize_default_coa(c, overwrite)
    \/ \E c \in NewCompanies, code \in RequestCodes, type \in ACCOUNT_TYPES :
          create_account(c, code, type)
    \/ \E r \in chart : destroy_account(r)

SpecChart == Init /\ [][NextChart]_vars

\* The COAHelper functions on every code and list of codes
NextHelper ==
    \/ get_parent_call
    \/ get_children_call

SpecHelper == Init /\ [][NextHelper]_vars

\* The snapshot manager beside a client that never posts on or before the day
\* of an account's latest snapshot
NextForward ==
    \/ Tick
    \/ \E t \in Transactions : post_after_snapshots(t)
    \/ \E a \in AccountIds, ts \in Times : create_balance(accounts[a].company, a, ts)
    \/ \E c \in Companies, ts \in Times : save_balances(c, ts)

SpecForward == Init /\ [][NextForward]_vars

\* ------------------------------------------------------------- properties
\* C1: after any sequence of journal-entry and snapshot creations, for every
\* company, account and timestamp T the snapshot-assisted calculate_balance
\* equals the direct credit-minus-debit sum over the account's lines dated up
\* to T.
C1_SnapshotPathEqualsDirectSum ==
    \A c \in Companies, a \in AccountIds, T \in Times :
        calculate_balance(c, a, T) = _calculate_balance_direct(c, a, NoDate, DateOf(T))

C4_RetroactiveSnapshotRejected ==
    \A c \in Companies, a \in AccountIds, T2 \in Times :
        (\E s \in snapshots : s.company = c /\ s.account = a /\ s.timestamp >= T2)
            => /\ CreateBalanceResult(snapshots, c, a, T2) = "RetroactiveOperationError"
               /\ CreateBalanceTable(snapshots, c, a, T2) = snapshots

\* A snapshot is stored and create_balance is asked for its own timestamp and
\* for an earlier one
C4_Witness ==
    \E s \in snapshots :
        /\ s.timestamp > 0
        /\ CreateBalanceResult(snapshots, s.company, s.account, s.timestamp)
               = "RetroactiveOperationError"
        /\ CreateBalanceResult(snapshots, s.company, s.account, s.timestamp - 1)
               = "RetroactiveOperationError"

\* C5: create_balance with a timestamp later than the current time raises
\* FutureOperationError and stores nothing; every snapshot row is stored with a
\* timestamp not later than the time of its creation.
C5_FutureSnapshotRejected ==
    /\ [](\A c \in Companies, a \in AccountIds, ts \in Times :
            ts > now => /\ CreateBalanceResult(snapshots, c, a, ts) = "FutureOperationError"
                        /\ CreateBalanceTable(snapshots, c, a, ts) = snapshots)
    /\ [][\A s \in snapshots' \ snapshots : s.timestamp <= now]_vars
    /\ [](\A s \in snapshots : s.timestamp <= now)

\* A snapshot has been stored and a later timestamp is still in the future
C5_Witness ==
    /\ snapshots # {}
    /\ now < MaxTime
    /\ \E s \in snapshots :
          CreateBalanceResult(snapshots, s.company, s.account, now + 1)
              = "FutureOperationError"

\* C6: creating a journal entry dated later than now fails with
\* FutureOperationError and leaves the journal as it was, from a transaction
\* and through the create_journal_entry tool alike.
C6_FutureEntryRejected ==
    /\ \A t \in Transactions :
          (t.is_validated /\ t.account # None /\ t.date > DateOf(now))
              => /\ CjeftResult(t) = "FutureOperationError"
                 /\ CjeftJournal(t) = journal
    /\ \A req \in ToolRequests :
          (req.lines # <<>> /\ req.date > DateOf(now))
              => /\ ToolResult(req) = "FutureOperationError"
                 /\ ToolJournal(req) = journal

\* C7: an entry whose whole day lies at or before the latest snapshot of an
\* account it posts to is rejected with RetroactiveOperationError and leaves
\* the journal as it was.
C7_EntryBehindSnapshotRejected ==
    \A t \in Transactions :
        (/\ t.is_validated
         /\ t.account # None
         /\ _get_default_contra_account(t.company) # None
         /\ \E a \in {t.account, _get_default_contra_account(t.company)} :
               validate_timestamp_after_last_balance(t.company, a, EndOfDay(t.date)))
            => /\ CjeftResult(t) = "RetroactiveOperationError"
               /\ CjeftJournal(t) = journal

\* C8: once a closing of a company is CLOSED (or has moved on to AUDITED), an
\* entry of that company dated on or before its closing_date is rejected with
\* RetroactiveOperationError and leaves the journal as it was.
C8_ClosedPeriodRejected ==
    \A cl \in closings : \A t \in Transactions :
        (/\ cl.status \in {"CLOSED", "AUDITED"}
         /\ t.is_validated
         /\ t.account # None
         /\ t.company = cl.company
         /\ t.date <= cl.closing_date)
            => /\ CjeftResult(t) = "RetroactiveOperationError"
               /\ CjeftJournal(t) = journal

\* C9: when every journal entry is balanced and posts to accounts of its own
\* company, and every account's normal_balance follows its type, the trial
\* balance has total_debits = total_credits and is_balanced, with and without
\* snapshots.
C9_TrialBalanceBalanced ==
    (/\ \A i \in 1..Len(journal) :
           /\ is_balanced(journal[i])
           /\ \A k \in 1..Len(journal[i].lines) :
                 accounts[journal[i].lines[k].account].company = journal[i].company
     /\ \A a \in AccountIds :
           accounts[a].normal_balance
               = IF accounts[a].account_type \in DebitTypes THEN "debit" ELSE "credit")
        => \A c \in Companies, end \in Days, use_snapshots \in BOOLEAN :
              /\ generate(c, NoDate, end, use_snapshots).total_debits
                     = generate(c, NoDate, end, use_snapshots).total_credits
              /\ generate(c, NoDate, end, use_snapshots).is_balanced

\* C10: when every journal entry is balanced and posts only to ASSET,
\* LIABILITY and EQUITY accounts of its own company, the balance sheet of every
\* company is balanced at every end date, whatever the state of the accounts.
C10_BalanceSheetEquation ==
    (\A i \in 1..Len(journal) :
        /\ is_balanced(journal[i])
        /\ \A k \in 1..Len(journal[i].lines) :
              /\ accounts[journal[i].lines[k].account].company = journal[i].company
              /\ accounts[journal[i].lines[k].account].account_type
                     \in {"ASSET", "LIABILITY", "EQUITY"})
        => \A c \in Companies, end \in Days : get_balance_sheet(c, end).balanced

C13_SnapshotCreationSerialized ==
    /\ [](\A s \in snapshots, r \in snapshots :
            (s.company = r.company /\ s.account = r.account
             /\ s.timestamp = r.timestamp) => s = r)
    /\ [][\A s \in snapshots' \ snapshots :
            ~\E r \in snapshots : /\ r.company = s.company
                                  /\ r.account = s.account
                                  /\ r.timestamp >= s.timestamp]_vars

\* C14: every persisted journal entry line has debit >= 0 and credit >= 0,
\* exactly one of the two strictly positive and the other zero.
C14_LineHasOneSide ==
    \A i \in 1..Len(journal) : \A k \in 1..Len(journal[i].lines) :
        LET l == journal[i].lines[k]
        IN  /\ l.debit >= 0
            /\ l.credit >= 0
            /\ \/ l.debit > 0 /\ l.credit = 0
               \/ l.credit > 0 /\ l.debit = 0

\* C15: for every deactivated company validate_company_not_archived raises
\* ArchivedCompanyError, and journal entry creation and snapshot creation on
\* that company are rejected with it and store nothing.
C15_ArchivedCompanyRejected ==
    \A c \in Companies :
        ~companies[c].is_active =>
            /\ validate_company_not_archived(c)
            /\ \A t \in Transactions :
                  (t.company = c /\ t.is_validated /\ t.account # None)
                      => /\ CjeftResult(t) = "ArchivedCompanyError"
                         /\ CjeftJournal(t) = journal
            /\ \A a \in AccountIds, ts \in Times :
                  accounts[a].company = c
                      => /\ CreateBalanceResult(snapshots, c, a, ts) = "ArchivedCompanyError"
                         /\ CreateBalanceTable(snapshots, c, a, ts) = snapshots

\* C16: snapshots are append-only: every step of create_balance and of
\* save_balances keeps each stored snapshot row as it is and leaves the journal
\* alone, and no step of the read methods changes the snapshots or the journal.
C16_SnapshotsAppendOnly ==
    [][/\ snapshots \subseteq snapshots'
       /\ snapshots' # snapshots => journal' = journal]_vars

\* Two snapshots of one account are stored, the later one added beside the
\* earlier one
C16_Witness ==
    \E s \in snapshots, r \in snapshots :
        /\ s.company = r.company
        /\ s.account = r.account
        /\ s.timestamp < r.timestamp
        /\ journal # <<>>

\* C17: calculate_balance(C, A, T) is the balance of the snapshot of (C, A)
\* with the greatest timestamp <= T (0 when there is none) plus credit minus
\* debit of exactly the lines of A in C dated after that snapshot's day and up
\* to T's day; snapshots later than T do not influence it.
C17_CalculateBalanceFromLatestSnapshot ==
    \A c \in Companies, a \in AccountIds, T \in Times :
        LET upTo == {s \in snapshots :
                        s.company = c /\ s.account = a /\ s.timestamp <= T}
            base == {s \in upTo : \A r \in upTo : r.timestamp <= s.timestamp}
            dated == {i \in 1..Len(journal) :
                         /\ journal[i].company = c
                         /\ journal[i].date <= DateOf(T)
                         /\ \A s \in base : journal[i].date > DateOf(s.timestamp)}
            counted == UNION {{<<i, k>> : k \in {n \in 1..Len(journal[i].lines) :
                                                    journal[i].lines[n].account = a}} :
                              i \in dated}
            net[S \in SUBSET counted] ==
                IF S = {} THEN 0
                ELSE LET p == CHOOSE q \in S : TRUE
                     IN  journal[p[1]].lines[p[2]].credit
                         - journal[p[1]].lines[p[2]].debit + net[S \ {p}]
        IN  /\ Cardinality(base) <= 1
            /\ base = {} => calculate_balance(c, a, T) = net[counted]
            /\ \A s \in base : calculate_balance(c, a, T) = s.balance + net[counted]

\* A snapshot with a balance other than 0 is followed by a line of its account
\* dated after its day, and a later snapshot of the account lies beyond T
C17_Witness ==
    \E s \in snapshots, r \in snapshots, i \in 1..Len(journal) :
        /\ s.balance # 0
        /\ r.company = s.company /\ r.account = s.account
        /\ r.timestamp > s.timestamp + 1
        /\ journal[i].company = s.company
        /\ journal[i].date > DateOf(s.timestamp)
        /\ journal[i].date <= DateOf(s.timestamp + 1)
        /\ \E k \in 1..Len(journal[i].lines) :
              /\ journal[i].lines[k].account = s.account
              /\ journal[i].lines[k].debit + journal[i].lines[k].credit > 0
        /\ calculate_balance(s.company, s.account, s.timestamp + 1) # s.balance

\* C18: every account the trial balance reports has exactly one non-zero
\* column, the magnitude of its balance, on the side its lines net to: the
\* debit column when debits exceed credits, the credit column when credits
\* exceed debits, for debit-normal and credit-normal accounts alike.
C18_TrialBalanceColumnFollowsNetSide ==
    \A c \in Companies, end \in Days, use_snapshots \in BOOLEAN :
        \A a \in ActiveAccounts(c) :
            LET netDebit == AggDebit(journal, c, a, Beginning, end)
                            - AggCredit(journal, c, a, Beginning, end)
                balance == TrialBalanceOf(c, a, NoDate, end, use_snapshots)
                debit == DebitColumn(accounts[a].normal_balance, balance)
                credit == CreditColumn(accounts[a].normal_balance, balance)
            IN  /\ netDebit > 0 => debit = netDebit /\ credit = 0
                /\ netDebit < 0 => credit = 0 - netDebit /\ debit = 0

C20_ContraAccountIsActive ==
    \A c \in Companies :
        LET activeAssets == {a \in AccountIds : /\ accounts[a].company = c
                                                /\ accounts[a].account_type = "ASSET"
                                                /\ accounts[a].is_active}
            activeCash == {a \in activeAssets : accounts[a].cash}
            contra == _get_default_contra_account(c)
        IN  /\ activeCash # {} => contra \in activeCash /\ \A a \in activeCash : contra <= a
            /\ (activeCash = {} /\ activeAssets # {})
                  => contra \in activeAssets /\ \A a \in activeAssets : contra <= a
            /\ activeAssets = {} => contra = None

C23_SaveBalancesSurfacesErrors ==
    \A c \in Companies, ts \in Times, a \in AccountIds :
        (/\ SaveBalanceReaches(snapshots, c, a, ts)
         /\ CreateBalanceResult(snapshots, c, a, ts)
                \in {"FutureOperationError", "RetroactiveOperationError"})
            => SaveBalancesResult(c, ts) = CreateBalanceResult(snapshots, c, a, ts)

\* C24: in every reachable state every account's normal_balance agrees with
\* its type: debit for ASSET and EXPENSE, credit for LIABILITY, EQUITY and
\* REVENUE, for the accounts of DefaultCOAGenerator.generate and of the
\* accounts endpoint as for all others.
C24_NormalBalanceFollowsType ==
    LET expected(type) == IF type \in {"ASSET", "EXPENSE"} THEN "debit" ELSE "credit"
    IN  /\ \A a \in AccountIds :
              accounts[a].normal_balance = expected(accounts[a].account_type)
        /\ \A r \in chart : r.normal_balance = expected(r.account_type)

\* C25: for the same company, journal and end date, TrialBalanceService.generate
\* and AccountingService.get_trial_balance put every active account's balance in
\* the same column with the same amount.
C25_ReportsShareSignConvention ==
    \A c \in Companies, end \in Days, use_snapshots \in BOOLEAN :
        \A a \in ActiveAccounts(c) :
            LET balance == TrialBalanceOf(c, a, NoDate, end, use_snapshots)
            IN  /\ DebitColumn(accounts[a].normal_balance, balance)
                       = get_trial_balance(a, end).debit
                /\ CreditColumn(accounts[a].normal_balance, balance)
                       = get_trial_balance(a, end).credit

\* C26: get_children(p, S) returns exactly the codes c of S, in the order of
\* S, whose get_parent(c) is p; get_parent returns nothing exactly for the
\* codes of a single segment (no dot).
C26_ChildrenMatchParent ==
    /\ helper.method = "get_children" =>
          LET IsChildOf(c) == get_parent(c) = helper.account_code
          IN  helper.result = SelectSeq(helper.all_accounts, IsChildOf)
    /\ helper.method = "get_parent" =>
          ((helper.result = NoCode)
              <=> ~\E i \in 1..Len(helper.account_code) : helper.account_code[i] = ".")

\* get_children has returned a direct child and left out a deeper descendant
\* that starts with the parent's code and a dot
C26_Witness ==
    /\ helper.method = "get_children"
    /\ helper.result # <<>>
    /\ get_parent(helper.result[1]) = helper.account_code
    /\ \E i \in 1..Len(helper.all_accounts) :
          /\ startswith(helper.all_accounts[i], helper.account_code \o <<".">>)
          /\ \A k \in 1..Len(helper.result) : helper.result[k] # helper.all_accounts[i]

\* C27: for every company, active account and date range (start_date possibly
\* absent), the balance TrialBalanceService.generate computes with
\* use_snapshots=True equals the one it computes with use_snapshots=False.
C27_SnapshotReportEqualsDirectReport ==
    \A c \in Companies, end \in Days, start \in Days \cup {NoDate} :
        \A a \in ActiveAccounts(c) :
            TrialBalanceOf(c, a, start, end, TRUE) = TrialBalanceOf(c, a, start, end, FALSE)

\* C28: when no line is ever posted to an account with an entry date on or
\* before the day of that account's latest snapshot, every stored snapshot
\* balance is the direct credit-minus-debit sum of the account's lines dated up
\* to the snapshot's day, and calculate_balance(C, A, T) equals the direct sum
\* for every T.
C28_ForwardPostingKeepsSnapshotsExact ==
    /\ \A s \in snapshots :
          s.balance = DirectBalance(journal, s.company, s.account, NoDate,
                                    DateOf(s.timestamp))
    /\ \A c \in Companies, a \in AccountIds, T \in Times :
          calculate_balance(c, a, T) = _calculate_balance_direct(c, a, NoDate, DateOf(T))

\* Two snapshots of one account with different balances, the earlier one not
\* zero: the later one was computed from the earlier one and a later entry
C28_Witness ==
    \E s \in snapshots, r \in snapshots :
        /\ s.company = r.company
        /\ s.account = r.account
        /\ s.timestamp < r.timestamp
        /\ s.balance # 0
        /\ r.balance # s.balance
        /\ LinesExist(s.company, s.account, DateOf(s.timestamp))

C30_TenantIsolation ==
    [][\A x \in Companies :
          (\/ /\ Len(journal') = Len(journal) + 1
              /\ journal'[Len(journal')].company = x
           \/ \E s \in snapshots' \ snapshots : s.company = x)
              => \A c \in Companies \ {x} : \A a \in AccountIds :
                    accounts[a].company = c =>
                        /\ \A T \in Times :
                              calculate_balance(c, a, T)' = calculate_balance(c, a, T)
                        /\ \A end \in Days, start \in Days \cup {NoDate} :
                              /\ \A use_snapshots \in BOOLEAN :
                                    TrialBalanceOf(c, a, start, end, use_snapshots)'
                                        = TrialBalanceOf(c, a, start, end, use_snapshots)
                              /\ calculate_account_balance(a, start, end)'
                                     = calculate_account_balance(a, start, end)]_vars
====
